---- MODULE Spec2Model ----
(***************************************************************************)
(* The RFC merge pipeline of triagebot (src/src/rfc_merge_pr.rs).          *)
(*                                                                         *)
(* A merge run is one call of merge(pr_num).  It awaits the GitHub gateway *)
(* six times (pulls.get, get_title, get_file_list, raw_file,               *)
(* issues.create, post_review_comment); every await is a suspension point  *)
(* at which another run may be scheduled, so each action below is the code *)
(* between two awaits together with the answer the gateway gives.          *)
(*                                                                         *)
(* Strings are sequences of tokens (a token is a run of characters that    *)
(* the code never splits), so that starts_with, lines, trim and            *)
(* strip_prefix are computed and not assumed.  Option<T> is a sequence of  *)
(* length at most one: <<>> is None and <<x>> is Some(x).                  *)
(***************************************************************************)
EXTENDS Integers, Sequences, FiniteSets, TLC

VARIABLES
    pc,              \* run -> the point of merge() the run is at
    pr,              \* run -> ExtractInfo.pr.pull_number (0 before the call)
    branch_repo,     \* run -> Option<BranchRepo>
    rfc_title,       \* run -> Option<String>
    file_diff_list,  \* run -> Option<Vec<filename>>: the first get_file_list answer
    text_filename,   \* run -> Option<String>
    raw,             \* run -> Option<Option<bytes>>: the raw_file answer
    header,          \* run -> Option<Header>
    tracking_issue,  \* run -> Option<i64>: Issue.number as returned by issues.create
    calls,           \* run -> the gateway calls the run has made, in order
    failedAt,        \* run -> Option<pc>: the point at which the run failed
    result,          \* run -> Option<Result<(), RfcMergePrError>>: what merge returned
    issues,          \* gateway: the issues created on RUST_REPO
    comments,        \* gateway: the review comments posted on RFCS_REPO
    hdr_bytes,       \* header specification: the raw bytes handed to the parser
    hdr_result,      \* header specification: Option<Result<Header, Error>>
    fi_header,       \* feature-name specification: the Header feature_name is called on
    fi_result,       \* feature-name specification: Option<Result<Option<String>, Error>>
    h_pc,            \* handler: the point of handle_command the command is at
    h_feature_name,  \* handler: RfcMergePrInFlight.feature_name
    h_tracking_issue_number, \* handler: RfcMergePrInFlight.tracking_issue_number
    h_steps,         \* handler: the steps of handle_command that have returned Ok
    h_panic,         \* handler: Option<message> of the panic that ended the command
    rt_result        \* round trip: Option<Result<Header, Error>> of parsing the rebuilt lines

vars == <<pc, pr, branch_repo, rfc_title, file_diff_list, text_filename, raw,
          header, tracking_issue, calls, failedAt, result, issues, comments,
          hdr_bytes, hdr_result, fi_header, fi_result,
          h_pc, h_feature_name, h_tracking_issue_number, h_steps, h_panic, rt_result>>

runVars == <<pc, pr, branch_repo, rfc_title, file_diff_list, text_filename, raw,
             header, tracking_issue, calls, failedAt, result, issues, comments>>

hdrVars == <<hdr_bytes, hdr_result>>

featVars == <<fi_header, fi_result>>

handlerVars == <<h_pc, h_feature_name, h_tracking_issue_number, h_steps, h_panic>>

----------------------------------------------------------------------------
(* Bounds of the model *)

\* the longest changed-file list the gateway answers with
MaxFiles == 2

\* the most lines a raw text handed to the header parser has
MaxLines == 5

\* the merge runs that may be interleaved
Runs == {"run1", "run2"}

\* the pull request numbers merge() is called with
PrNumbers == {42, 43}

----------------------------------------------------------------------------
(* Option and Result *)

None == <<>>

Some(x) == <<x>>

Ok(v) == [ok |-> TRUE, val |-> v]

Err(e) == [ok |-> FALSE, err |-> e]

Min(a, b) == IF a < b THEN a ELSE b

----------------------------------------------------------------------------
(* str operations on token sequences *)

\* str::starts_with
StartsWith(s, p) == Len(s) >= Len(p) /\ SubSeq(s, 1, Len(p)) = p

\* str::ends_with
EndsWith(s, p) == Len(s) >= Len(p) /\ SubSeq(s, Len(s) - Len(p) + 1, Len(s)) = p

\* str::strip_prefix: Some(rest) or None
StripPrefix(s, p) == IF StartsWith(s, p) THEN Some(SubSeq(s, Len(p) + 1, Len(s))) ELSE None

\* str::strip_suffix: Some(rest) or None
StripSuffix(s, p) == IF EndsWith(s, p) THEN Some(SubSeq(s, 1, Len(s) - Len(p))) ELSE None

\* Option::unwrap_or
UnwrapOr(o, d) == IF o = None THEN d ELSE o[1]

RECURSIVE TrimStart(_)
TrimStart(s) == IF s # <<>> /\ s[1] = " " THEN TrimStart(Tail(s)) ELSE s

RECURSIVE TrimEnd(_)
TrimEnd(s) == IF s # <<>> /\ s[Len(s)] = " " THEN TrimEnd(SubSeq(s, 1, Len(s) - 1)) ELSE s

\* str::trim
Trim(s) == TrimEnd(TrimStart(s))

\* str::lines: the text split at "\n"; a final line ending is optional, so a
\* text that ends with "\n" has no empty last line and "" has no line at all
RECURSIVE SplitLines(_, _, _)
SplitLines(text, i, cur) ==
    IF i > Len(text)
    THEN IF cur = <<>> THEN <<>> ELSE <<cur>>
    ELSE IF text[i] = "\n"
         THEN <<cur>> \o SplitLines(text, i + 1, <<>>)
         ELSE SplitLines(text, i + 1, Append(cur, text[i]))

Lines(text) == SplitLines(text, 1, <<>>)

\* Iterator::take
Take(s, n) == SubSeq(s, 1, Min(n, Len(s)))

\* String::from_utf8_lossy: an invalid byte becomes U+FFFD
Utf8Lossy(bytes) == [i \in 1..Len(bytes) |-> IF bytes[i] = "\\xFF" THEN "U+FFFD" ELSE bytes[i]]

\* the lines joined, each followed by "\n"
RECURSIVE JoinLines(_)
JoinLines(ls) == IF ls = <<>> THEN <<>> ELSE ls[1] \o <<"\n">> \o JoinLines(Tail(ls))

----------------------------------------------------------------------------
(* RfcMergePrError *)

\* anyhow::anyhow!(fmt, args): the message's literal text, the numbers and the
\* strings formatted into it
Anyhow(fmt, nums, strs) == [variant |-> "Anyhow", fmt |-> fmt, nums |-> nums, strs |-> strs]

\* an error of the gateway (octocrab, reqwest), converted by the ? operator in a function
\* that returns anyhow::Result; its text is the collaborator's
Transport == Anyhow("gateway error", <<>>, <<>>)

\* From<std::num::TryFromIntError>
TryFromErr == [variant |-> "TryFrom", fmt |-> "out of range integral type conversion attempted",
               nums |-> <<>>, strs |-> <<>>]

----------------------------------------------------------------------------
(* Header *)

\* the backtick character U+0060 (the lexer of TLA+ does not take it in a string)
Backtick == "<backtick>"

\* the feature prefix followed by a backtick, which extract_rfc_header requires of line 1
FeatureLinePrefix == <<"- Feature Name: ", Backtick>>

\* "- Feature Name: ", the prefix Header::feature_name strips
FeatureNamePrefix == <<"- Feature Name: ">>

StartDatePrefix == <<"- Start Date: ">>

RfcPrPrefix == <<"- RFC PR: ">>

RustIssuePrefix == <<"- Rust Issue: ">>

\* struct Header
MkHeader(f, s, p, i) == [feature_name |-> f, start_date |-> s, rfc_pr |-> p, rust_issue |-> i]

\* extract_rfc_header after the raw file has arrived: the first four lines
\* are taken, each must exist, and then each must start with its prefix
MalformedFirstParseHeader(text) ==
    LET hd == Take(Lines(text), 4)
    IN  IF Len(hd) >= 1 /\ ~StartsWith(hd[1], FeatureLinePrefix)
        THEN Err(Anyhow("malformed feature line: {}", <<>>, <<hd[1]>>))
        ELSE IF Len(hd) >= 2 /\ ~StartsWith(hd[2], StartDatePrefix)
        THEN Err(Anyhow("malformed start date line: {}", <<>>, <<hd[2]>>))
        ELSE IF Len(hd) >= 3 /\ ~StartsWith(hd[3], RfcPrPrefix)
        THEN Err(Anyhow("malformed rfc pr line: {}", <<>>, <<hd[3]>>))
        ELSE IF Len(hd) >= 4 /\ ~StartsWith(hd[4], RustIssuePrefix)
        THEN Err(Anyhow("malformed rust issue line: {}", <<>>, <<hd[4]>>))
        ELSE IF Len(hd) < 1 THEN Err(Anyhow("missing line 1", <<>>, <<>>))
        ELSE IF Len(hd) < 2 THEN Err(Anyhow("missing line 2", <<>>, <<>>))
        ELSE IF Len(hd) < 3 THEN Err(Anyhow("missing line 3", <<>>, <<>>))
        ELSE IF Len(hd) < 4 THEN Err(Anyhow("missing line 4", <<>>, <<>>))
        ELSE Ok(MkHeader(hd[1], hd[2], hd[3], hd[4]))

ParseHeader(text) ==
    LET hd == Take(Lines(text), 4)
    IN  IF Len(hd) < 1 THEN Err(Anyhow("missing line 1", <<>>, <<>>))
        ELSE IF Len(hd) < 2 THEN Err(Anyhow("missing line 2", <<>>, <<>>))
        ELSE IF Len(hd) < 3 THEN Err(Anyhow("missing line 3", <<>>, <<>>))
        ELSE IF Len(hd) < 4 THEN Err(Anyhow("missing line 4", <<>>, <<>>))
        ELSE IF ~StartsWith(hd[1], FeatureLinePrefix)
        THEN Err(Anyhow("malformed feature line: {}", <<>>, <<hd[1]>>))
        ELSE IF ~StartsWith(hd[2], StartDatePrefix)
        THEN Err(Anyhow("malformed start date line: {}", <<>>, <<hd[2]>>))
        ELSE IF ~StartsWith(hd[3], RfcPrPrefix)
        THEN Err(Anyhow("malformed rfc pr line: {}", <<>>, <<hd[3]>>))
        ELSE IF ~StartsWith(hd[4], RustIssuePrefix)
        THEN Err(Anyhow("malformed rust issue line: {}", <<>>, <<hd[4]>>))
        ELSE Ok(MkHeader(hd[1], hd[2], hd[3], hd[4]))

\* feature_name that takes a line without a name for a malformed one
FeatureNameDemandsName(h) ==
    LET stripped0 == StripPrefix(h.feature_name, FeatureNamePrefix)
        s1 == Trim(stripped0[1])
        s2 == UnwrapOr(StripPrefix(s1, <<Backtick>>), s1)
        s3 == UnwrapOr(StripSuffix(s2, <<Backtick>>), s2)
        s4 == Trim(s3)
    IN  IF stripped0 = None \/ s4 = <<"N/A">> \/ s4 = <<>>
        THEN Err(Anyhow("header feature line did not match template; needs to start with {}",
                        <<>>, <<FeatureNamePrefix>>))
        ELSE Ok(Some(s4))

\* feature_name without the trim that follows the unquoting
FeatureNameUntrimmed(h) ==
    LET stripped0 == StripPrefix(h.feature_name, FeatureNamePrefix)
        s1 == Trim(stripped0[1])
        s2 == UnwrapOr(StripPrefix(s1, <<Backtick>>), s1)
        s3 == UnwrapOr(StripSuffix(s2, <<Backtick>>), s2)
    IN  IF s3 = <<"N/A">> THEN Ok(None) ELSE IF s3 = <<>> THEN Ok(None) ELSE Ok(Some(s3))

\* Header::feature_name: Result<Option<&str>>
FeatureName(h) ==
    LET stripped0 == StripPrefix(h.feature_name, FeatureNamePrefix)
    IN  IF stripped0 = None
        THEN Err(Anyhow("header feature line did not match template; needs to start with {}",
                        <<>>, <<FeatureNamePrefix>>))
        ELSE LET s1 == Trim(stripped0[1])
                 s2 == UnwrapOr(StripPrefix(s1, <<Backtick>>), s1)
                 s3 == UnwrapOr(StripSuffix(s2, <<Backtick>>), s2)
                 s4 == Trim(s3)
             IN  IF s4 = <<"N/A">> THEN Ok(None)
                 ELSE IF s4 = <<>> THEN Ok(None)
                 ELSE Ok(Some(s4))

----------------------------------------------------------------------------
(* What the gateway answers with *)

\* the files a pull request may change, in the order GitHub lists them
AllPaths == << <<"README.md">>, <<"text/", "0000-foo.md">>, <<"text/", "0001-bar.md">> >>

\* the changed files of the positions S, in order
FileListOf(S) ==
    LET F[i \in 0..Len(AllPaths)] ==
            IF i = 0 THEN <<>>
            ELSE IF i \in S THEN Append(F[i - 1], AllPaths[i]) ELSE F[i - 1]
    IN  F[Len(AllPaths)]

\* the answers of get_file_list
FileLists == {FileListOf(S) : S \in {T \in SUBSET (1..Len(AllPaths)) : Cardinality(T) <= MaxFiles}}

\* pr.head.repo.full_name and pr.head.ref_field of the pull request
HeadRepo == [repo_full_name |-> "alice/rfcs", branch |-> "feature-x"]

\* the title of the pull request
PrTitle == "My RFC"

LineFeature == <<"- Feature Name: ", Backtick, "foo", Backtick>>

LineFeatureQuotedNA == <<"- Feature Name: ", Backtick, "N/A", Backtick>>

LineFeatureNA == <<"- Feature Name: ", "N/A">>

LineFeatureEmpty == <<"- Feature Name: ">>

LineStartDate == <<"- Start Date: ", "2024-01-01">>

LineRfcPr == <<"- RFC PR: ", "(leave this empty)">>

LineRustIssue == <<"- Rust Issue: ", "(leave this empty)">>

LineSummary == <<"# Summary", "\\xFF">>

\* the contents raw_file answers with
RawFiles ==
    { JoinLines(<<LineFeature, LineStartDate, LineRfcPr, LineRustIssue, LineSummary>>),
      JoinLines(<<LineFeatureQuotedNA, LineStartDate, LineRfcPr, LineRustIssue>>),
      JoinLines(<<LineFeatureNA, LineStartDate, LineRfcPr, LineRustIssue>>),
      JoinLines(<<LineFeature, LineStartDate, LineRfcPr>>),
      JoinLines(<<LineFeature, LineSummary, LineRfcPr, LineRustIssue>>) }

\* the number GitHub gives the next issue it creates
NextIssueNumber == 777 + Cardinality(issues)

----------------------------------------------------------------------------
(* Composers *)

\* a context in which FEATURE is inserted also when there is no feature name
TrackingIssueContextAlwaysFeature(feature, pull_number, title) ==
    [FEATURE |-> IF feature = None THEN <<"N/A">> ELSE feature[1],
     PR_NUM |-> ToString(pull_number), TITLE |-> title]

\* the tera::Context of create_tracking_issue: FEATURE is inserted only for
\* Some(feature_name)
TrackingIssueContext(feature, pull_number, title) ==
    IF feature = None
    THEN [PR_NUM |-> ToString(pull_number), TITLE |-> title]
    ELSE [FEATURE |-> feature[1], PR_NUM |-> ToString(pull_number), TITLE |-> title]

\* format!("Tracking Issue for RFC {NNN}: {XXX}")
TrackingIssueTitle(pull_number, title) ==
    <<"Tracking Issue for RFC ", ToString(pull_number), ": ", title>>

\* crate::actions::TEMPLATES.render: the text is a function of the template
\* and of the context it is given
TemplatesRender(template, context) == [template |-> template, context |-> context]

\* the body without the line break that ends the feature line
SuggestionBodyRunTogether(h, feature, tracking_issue_number, pull_number) ==
    LET feature_line ==
            IF feature = None THEN <<>>
            ELSE <<"- Feature Name: ", Backtick>> \o feature[1] \o <<Backtick>>
        N == ToString(pull_number)
        T == ToString(tracking_issue_number)
    IN  <<Backtick, Backtick, Backtick, "suggestion", "\n">>
        \o feature_line
        \o h.start_date \o <<"\n">>
        \o <<"- RFC PR: ", "[rust-lang/rfcs#", N, "](https://github.com/rust-lang/rfcs/pull/", N, ")", "\n">>
        \o <<"- Rust Issue: ", "[rust-lang/rust#", T, "](https://github.com/rust-lang/rust/issues/", T, ")", "\n">>
        \o <<Backtick, Backtick, Backtick, "\n">>

\* the body with the two numbers in each other's place
SuggestionBodySwapped(h, feature, tracking_issue_number, pull_number) ==
    LET feature_line ==
            IF feature = None THEN <<>>
            ELSE <<"- Feature Name: ", Backtick>> \o feature[1] \o <<Backtick, "\n">>
        N == ToString(tracking_issue_number)
        T == ToString(pull_number)
    IN  <<Backtick, Backtick, Backtick, "suggestion", "\n">>
        \o feature_line
        \o h.start_date \o <<"\n">>
        \o <<"- RFC PR: ", "[rust-lang/rfcs#", N, "](https://github.com/rust-lang/rfcs/pull/", N, ")", "\n">>
        \o <<"- Rust Issue: ", "[rust-lang/rust#", T, "](https://github.com/rust-lang/rust/issues/", T, ")", "\n">>
        \o <<Backtick, Backtick, Backtick, "\n">>

\* the body of update_rfc_header_text
SuggestionBody(h, feature, tracking_issue_number, pull_number) ==
    LET feature_line ==
            IF feature = None THEN <<>>
            ELSE <<"- Feature Name: ", Backtick>> \o feature[1] \o <<Backtick, "\n">>
        N == ToString(pull_number)
        T == ToString(tracking_issue_number)
    IN  <<Backtick, Backtick, Backtick, "suggestion", "\n">>
        \o feature_line
        \o h.start_date \o <<"\n">>
        \o <<"- RFC PR: ", "[rust-lang/rfcs#", N, "](https://github.com/rust-lang/rfcs/pull/", N, ")", "\n">>
        \o <<"- Rust Issue: ", "[rust-lang/rust#", T, "](https://github.com/rust-lang/rust/issues/", T, ")", "\n">>
        \o <<Backtick, Backtick, Backtick, "\n">>

\* github::ReviewCommentDiffAddress::MultiLine { .. }.comment(body)
ReviewComment(path, body) ==
    [commit_id |-> "a8886a1a2d5edb9c247922e8058fb0a573f0755b", path |-> path,
     first |-> [line |-> 1, side |-> "RIGHT"], last |-> [line |-> 4, side |-> "RIGHT"], body |-> body]

----------------------------------------------------------------------------
(* merge *)

InitRuns ==
    /\ pc = [r \in Runs |-> "NotStarted"]
    /\ pr = [r \in Runs |-> 0]
    /\ branch_repo = [r \in Runs |-> None]
    /\ rfc_title = [r \in Runs |-> None]
    /\ file_diff_list = [r \in Runs |-> None]
    /\ text_filename = [r \in Runs |-> None]
    /\ raw = [r \in Runs |-> None]
    /\ header = [r \in Runs |-> None]
    /\ tracking_issue = [r \in Runs |-> None]
    /\ calls = [r \in Runs |-> <<>>]
    /\ failedAt = [r \in Runs |-> None]
    /\ result = [r \in Runs |-> None]
    /\ issues = {}
    /\ comments = {}

\* feature_name has not been called on any Header
FeatureIdle ==
    /\ fi_header = None
    /\ fi_result = None

\* no rfc-merge-pr command has been handed to handle_command
HandlerIdle ==
    /\ h_pc = "NotStarted"
    /\ h_feature_name = [tag |-> "Uninitialized", name |-> <<>>]
    /\ h_tracking_issue_number = None
    /\ h_steps = <<>>
    /\ h_panic = None

Init ==
    /\ InitRuns
    /\ hdr_bytes = <<>>
    /\ hdr_result = None
    /\ FeatureIdle
    /\ HandlerIdle
    /\ rt_result = None

\* the run awaits the gateway operation op and is answered with answer
CalledWith(r, op, args, answer) ==
    calls' = [calls EXCEPT ![r] = Append(@, [op |-> op, args |-> args, answer |-> answer])]

\* the same for an operation whose arguments no claim looks at
Called(r, op, answer) == CalledWith(r, op, <<>>, answer)

\* the ? operator on Err(e): merge returns the error
FailingGoesOn(r, e) ==
    /\ pc' = pc
    /\ result' = [result EXCEPT ![r] = Some(Err(e))]
    /\ failedAt' = [failedAt EXCEPT ![r] = Some(pc[r])]

Failing(r, e) ==
    /\ pc' = [pc EXCEPT ![r] = "Returned"]
    /\ result' = [result EXCEPT ![r] = Some(Err(e))]
    /\ failedAt' = [failedAt EXCEPT ![r] = Some(pc[r])]

\* the ? operator on Ok: the run goes on to the next await
Proceeding(r, next) ==
    /\ pc' = [pc EXCEPT ![r] = next]
    /\ UNCHANGED <<result, failedAt>>

\* merge is called with pr_num; the clients are built (lines 62-68)
Start(r) ==
    /\ pc[r] = "NotStarted"
    /\ \E pr_num \in PrNumbers : pr' = [pr EXCEPT ![r] = pr_num]
    /\ pc' = [pc EXCEPT ![r] = "Init"]
    /\ UNCHANGED <<branch_repo, rfc_title, file_diff_list, text_filename, raw, header,
                   tracking_issue, calls, failedAt, result, issues, comments, hdrVars,
                   featVars, handlerVars, rt_result>>

\* pr.head.repo is None and the run goes on to the title all the same
NoHeadRepoIgnored(r) ==
    /\ Proceeding(r, "BranchResolved")
    /\ UNCHANGED branch_repo

\* find_branch_repo when pr.head.repo is None
NoHeadRepo(r) ==
    /\ Failing(r, Anyhow("no remote repo found for PR {}", <<pr[r]>>, <<>>))
    /\ UNCHANGED branch_repo

\* find_branch_repo, then ExtractInfo::new
FindBranchRepo(r) ==
    /\ pc[r] = "Init"
    /\ \/ /\ Called(r, "pulls.get", "error")
          /\ Failing(r, Transport)
          /\ UNCHANGED branch_repo
       \/ /\ Called(r, "pulls.get", "ok")
          /\ \/ NoHeadRepo(r)
             \/ /\ branch_repo' = [branch_repo EXCEPT ![r] = Some(HeadRepo)]
                /\ Proceeding(r, "BranchResolved")
    /\ UNCHANGED <<pr, rfc_title, file_diff_list, text_filename, raw, header,
                   tracking_issue, issues, comments, hdrVars,
                   featVars, handlerVars, rt_result>>

\* ExtractInfo::find_rfc_title
FindRfcTitle(r) ==
    /\ pc[r] = "BranchResolved"
    /\ \/ /\ Called(r, "get_title", "error")
          /\ Failing(r, Transport)
          /\ UNCHANGED rfc_title
       \/ /\ Called(r, "get_title", "ok")
          /\ rfc_title' = [rfc_title EXCEPT ![r] = Some(PrTitle)]
          /\ Proceeding(r, "PrResolved")
    /\ UNCHANGED <<pr, branch_repo, file_diff_list, text_filename, raw, header,
                   tracking_issue, issues, comments, hdrVars,
                   featVars, handlerVars, rt_result>>

\* file_diff_list.iter().filter(|d| d.filename.starts_with("text/"))
Candidates(file_list) == SelectSeq(file_list, LAMBDA f : StartsWith(f, <<"text/">>))

\* match candidates.clone().count() { 1 => Some(the candidate), count => None }
LocatedFirstCandidate(file_list) ==
    IF Len(Candidates(file_list)) >= 1 THEN Some(Candidates(file_list)[1]) ELSE None

Located(file_list) ==
    IF Len(Candidates(file_list)) = 1 THEN Some(Candidates(file_list)[1]) ELSE None

\* ExtractInfo::find_text_filename up to its second await: the file list is
\* fetched and the candidates are counted; one candidate is the file name,
\* any other count makes the run fetch the list again for its error message
FindTextFilename(r) ==
    /\ pc[r] = "PrResolved"
    /\ \/ /\ Called(r, "get_file_list", "error")
          /\ Failing(r, Transport)
          /\ UNCHANGED <<file_diff_list, text_filename>>
       \/ /\ Called(r, "get_file_list", "ok")
          /\ \E file_list \in FileLists :
                /\ file_diff_list' = [file_diff_list EXCEPT ![r] = Some(file_list)]
                /\ IF Located(file_list) # None
                   THEN /\ text_filename' = [text_filename EXCEPT ![r] = Located(file_list)]
                        /\ Proceeding(r, "FileLocated")
                   ELSE /\ Proceeding(r, "ListingFiles")
                        /\ UNCHANGED text_filename
    /\ UNCHANGED <<pr, branch_repo, rfc_title, raw, header,
                   tracking_issue, issues, comments, hdrVars,
                   featVars, handlerVars, rt_result>>

\* ExtractInfo::find_text_filename from its second await: the names of the
\* second answer go into the error, next to the count of the first
ListFilesForError(r) ==
    /\ pc[r] = "ListingFiles"
    /\ \/ /\ Called(r, "get_file_list", "error")
          /\ Failing(r, Transport)
       \/ /\ Called(r, "get_file_list", "ok")
          /\ \E file_list \in FileLists :
                Failing(r, Anyhow("expected one rfc file, found {}: {:?}",
                                  <<Len(Candidates(file_diff_list[r][1]))>>, file_list))
    /\ UNCHANGED <<pr, branch_repo, rfc_title, file_diff_list, text_filename, raw, header,
                   tracking_issue, issues, comments, hdrVars,
                   featVars, handlerVars, rt_result>>

\* the raw file asked for in the repository the pull request is to be merged into
RawFileArgsBase(r) == << <<"pnkfx/rfcs-play">>, <<"master">>, text_filename[r][1]>>

\* the arguments of gh.raw_file: repository, branch and path
RawFileArgs(r) ==
    << <<branch_repo[r][1].repo_full_name>>, <<branch_repo[r][1].branch>>, text_filename[r][1]>>

\* ExtractInfo::extract_rfc_header, then prepare_to_fly
ExtractRfcHeader(r) ==
    /\ pc[r] = "FileLocated"
    /\ \/ /\ CalledWith(r, "raw_file", RawFileArgs(r), "error")
          /\ Failing(r, Transport)
          /\ UNCHANGED <<raw, header>>
       \/ /\ CalledWith(r, "raw_file", RawFileArgs(r), "none")
          /\ raw' = [raw EXCEPT ![r] = Some(None)]
          /\ Failing(r, Anyhow("RFC for {}/{}/{} not found", <<>>,
                               <<<<branch_repo[r][1].repo_full_name>>,
                                 <<branch_repo[r][1].branch>>, text_filename[r][1]>>))
          /\ UNCHANGED header
       \/ /\ CalledWith(r, "raw_file", RawFileArgs(r), "ok")
          /\ \E bytes \in RawFiles :
                LET parsed == ParseHeader(Utf8Lossy(bytes))
                IN  /\ raw' = [raw EXCEPT ![r] = Some(Some(bytes))]
                    /\ IF parsed.ok
                       THEN /\ header' = [header EXCEPT ![r] = Some(parsed.val)]
                            /\ Proceeding(r, "HeaderExtracted")
                       ELSE /\ Failing(r, parsed.err)
                            /\ UNCHANGED header
    /\ UNCHANGED <<pr, branch_repo, rfc_title, file_diff_list, text_filename,
                   tracking_issue, issues, comments, hdrVars,
                   featVars, handlerVars, rt_result>>

\* issues.create(title).body(body).send().await? answered with an error
CreateIssueFailedAndRetried(r) ==
    /\ Called(r, "issues.create", "error")
    /\ UNCHANGED <<pc, result, failedAt, tracking_issue, issues>>

CreateIssueFailed(r) ==
    /\ Called(r, "issues.create", "error")
    /\ Failing(r, Transport)
    /\ UNCHANGED <<tracking_issue, issues>>

\* InFlight::create_tracking_issue
CreateTrackingIssue(r) ==
    /\ pc[r] = "HeaderExtracted"
    /\ LET feature == FeatureName(header[r][1])
           title == TrackingIssueTitle(pr[r], rfc_title[r][1])
       IN  IF ~feature.ok
           THEN /\ Failing(r, feature.err)
                /\ UNCHANGED <<calls, tracking_issue, issues>>
           ELSE LET context == TrackingIssueContext(feature.val, pr[r], rfc_title[r][1])
                    body == TemplatesRender("tracking_issue.tt", context)
                IN  \/ /\ Failing(r, Anyhow("tera: failed to render", <<>>, <<<<"tracking_issue.tt">>>>))
                       /\ UNCHANGED <<calls, tracking_issue, issues>>
                    \/ CreateIssueFailed(r)
                    \/ /\ Called(r, "issues.create", "ok")
                       /\ \E number \in {NextIssueNumber, -NextIssueNumber} :
                             /\ issues' = issues \cup {[number |-> number, title |-> title,
                                                        body |-> body, by |-> r]}
                             /\ tracking_issue' = [tracking_issue EXCEPT ![r] = Some(number)]
                       /\ Proceeding(r, "IssueCreated")
    /\ UNCHANGED <<pr, branch_repo, rfc_title, file_diff_list, text_filename, raw, header,
                   comments, hdrVars,
                   featVars, handlerVars, rt_result>>

\* u64::try_from(tracking_issue.number)?, then InFlight::update_rfc_header_text
UpdateRfcHeaderText(r) ==
    /\ pc[r] = "IssueCreated"
    /\ LET feature == FeatureName(header[r][1])
       IN  IF tracking_issue[r][1] < 0
           THEN /\ Failing(r, TryFromErr)
                /\ UNCHANGED <<calls, comments>>
           ELSE IF ~feature.ok
           THEN /\ Failing(r, feature.err)
                /\ UNCHANGED <<calls, comments>>
           ELSE LET body == SuggestionBody(header[r][1], feature.val, tracking_issue[r][1], pr[r])
                    comment == ReviewComment(text_filename[r][1], body)
                IN  \/ /\ Called(r, "post_review_comment", "error")
                       /\ Failing(r, Transport)
                       /\ UNCHANGED comments
                    \/ /\ Called(r, "post_review_comment", "ok")
                       /\ comments' = comments \cup
                              {[pull_number |-> pr[r], comment |-> comment, by |-> r]}
                       /\ Proceeding(r, "HeaderRewritten")
    /\ UNCHANGED <<pr, branch_repo, rfc_title, file_diff_list, text_filename, raw, header,
                   tracking_issue, issues, hdrVars,
                   featVars, handlerVars, rt_result>>

\* Err(anyhow::anyhow!("unfinished business").into()), the last line of merge
ReturnUnfinished(r) ==
    /\ pc[r] = "HeaderRewritten"
    /\ Failing(r, Anyhow("unfinished business", <<>>, <<>>))
    /\ UNCHANGED <<pr, branch_repo, rfc_title, file_diff_list, text_filename, raw, header,
                   tracking_issue, calls, issues, comments, hdrVars,
                   featVars, handlerVars, rt_result>>

Next ==
    \E r \in Runs :
        \/ Start(r)
        \/ FindBranchRepo(r)
        \/ FindRfcTitle(r)
        \/ FindTextFilename(r)
        \/ ListFilesForError(r)
        \/ ExtractRfcHeader(r)
        \/ CreateTrackingIssue(r)
        \/ UpdateRfcHeaderText(r)
        \/ ReturnUnfinished(r)

Spec == Init /\ [][Next]_vars

----------------------------------------------------------------------------
(* The header parser on its own: extract_rfc_header from the bytes of the   *)
(* raw file on, applied to every text of up to MaxLines lines               *)

HeaderLineChoices ==
    {LineFeature, LineFeatureNA, LineStartDate, LineRfcPr, LineRustIssue, LineSummary, <<>>}

\* the lines joined by "\n", with or without a final "\n"
TextOf(ls, final_newline) ==
    IF final_newline \/ ls = <<>>
    THEN JoinLines(ls)
    ELSE SubSeq(JoinLines(ls), 1, Len(JoinLines(ls)) - 1)

\* every text of up to MaxLines of the lines above
InitHeader ==
    /\ InitRuns
    /\ \E ls \in UNION {[1..n -> HeaderLineChoices] : n \in 0..MaxLines}, nl \in BOOLEAN :
          hdr_bytes = TextOf(ls, nl)
    /\ hdr_result = None
    /\ FeatureIdle
    /\ HandlerIdle
    /\ rt_result = None

ParseRawFile ==
    /\ hdr_result = None
    /\ hdr_result' = Some(ParseHeader(Utf8Lossy(hdr_bytes)))
    /\ UNCHANGED <<hdr_bytes, runVars, featVars, handlerVars, rt_result>>

NextHeader == ParseRawFile

SpecHeader == InitHeader /\ [][NextHeader]_vars

----------------------------------------------------------------------------
(* The feature-name specification: Header::feature_name as a pure function *)
(* of a Header whose feature line starts with the prefix the method strips *)

\* the most tokens that follow the prefix on the feature line
MaxContent == 4

\* what may follow the prefix: whitespace, a backtick, a name, the two
\* spellings of "not applicable"
ContentTokens == {" ", Backtick, "foo", "N/A", "n/a"}

InitFeature ==
    /\ InitRuns
    /\ hdr_bytes = <<>>
    /\ hdr_result = None
    /\ HandlerIdle
    /\ rt_result = None
    /\ \E content \in UNION {[1..n -> ContentTokens] : n \in 0..MaxContent} :
          fi_header = Some(MkHeader(FeatureNamePrefix \o content,
                                    LineStartDate, LineRfcPr, LineRustIssue))
    /\ fi_result = None

\* header.feature_name(): takes &self, so the Header is left as it is
CallFeatureName ==
    /\ fi_header # None
    /\ fi_result = None
    /\ fi_result' = Some(FeatureName(fi_header[1]))
    /\ UNCHANGED <<fi_header, runVars, hdrVars, handlerVars, rt_result>>

NextFeature == CallFeatureName

SpecFeature == InitFeature /\ [][NextFeature]_vars

----------------------------------------------------------------------------
(* The round-trip specification: a four-line header is parsed, its lines   *)
(* are rebuilt from the Header, and the rebuilt lines are parsed again     *)

\* a feature line written without the backticks around the name
FeatureLineOfUnquoted(feature) ==
    IF feature = None THEN <<>>
    ELSE <<"- Feature Name: ">> \o feature[1] \o <<"\n">>

\* feature_line of update_rfc_header_text
FeatureLineOf(feature) ==
    IF feature = None THEN <<>>
    ELSE <<"- Feature Name: ", Backtick>> \o feature[1] \o <<Backtick, "\n">>

\* the header lines rebuilt from Header h: the feature line as
\* update_rfc_header_text writes it, the other lines as the Header holds them
RebuiltHeader(h) ==
    FeatureLineOf(FeatureName(h).val)
    \o h.start_date \o <<"\n">> \o h.rfc_pr \o <<"\n">> \o h.rust_issue \o <<"\n">>

InitRoundTrip ==
    /\ InitRuns
    /\ FeatureIdle
    /\ HandlerIdle
    /\ rt_result = None
    /\ \E content \in UNION {[1..n -> ContentTokens] : n \in 0..MaxContent} :
          hdr_bytes = JoinLines(<<FeatureNamePrefix \o content,
                                  LineStartDate, LineRfcPr, LineRustIssue>>)
    /\ hdr_result = None

\* the lines rebuilt from an extracted Header go through the parser of
\* extract_rfc_header again
Reparse ==
    /\ hdr_result # None
    /\ hdr_result[1].ok
    /\ rt_result = None
    /\ rt_result' = Some(ParseHeader(RebuiltHeader(hdr_result[1].val)))
    /\ UNCHANGED <<runVars, hdrVars, featVars, handlerVars>>

NextRoundTrip == ParseRawFile \/ Reparse

SpecRoundTrip == InitRoundTrip /\ [][NextRoundTrip]_vars

----------------------------------------------------------------------------
(* The command handler (src/src/handlers/rfc_merge_pr.rs), which runs next *)
(* to the merge runs                                                       *)

\* handle_command: RfcMergePrInFlight::new, then the first step,
\* extract_feature_name_from_rfc_text, whose body reaches unimplemented!()
\* before any await; the panic unwinds through handle_command, so no later
\* step is called and nothing is returned
HandleCommand ==
    /\ h_pc = "NotStarted"
    /\ h_feature_name' = [tag |-> "Uninitialized", name |-> <<>>]
    /\ h_tracking_issue_number' = None
    /\ h_pc' = "Panicked"
    /\ h_panic' = Some("not implemented")
    /\ UNCHANGED <<h_steps, runVars, hdrVars, featVars, rt_result>>

NextHandler == Next \/ HandleCommand

SpecHandler == Init /\ [][NextHandler]_vars

----------------------------------------------------------------------------
(* The steps of the handler when the extraction that line 75 leaves        *)
(* unwritten yields a value: the feature identifier of the RFC text.  All  *)
(* around the placeholder is the code of src/src/handlers/rfc_merge_pr.rs. *)

\* opt_feature_name: what the extraction yields for the RFC text at hand
ExtractedFeatureName == FeatureName(fi_header[1]).val

\* handle_command up to the return of extract_feature_name_from_rfc_text:
\* RfcMergePrInFlight::new, then feature_name is set to Present inside
\* if let Some(..); there is no else branch
ExtractFeatureNameFromRfcText ==
    /\ h_pc = "NotStarted"
    /\ h_feature_name' = IF ExtractedFeatureName # None
                         THEN [tag |-> "Present", name |-> ExtractedFeatureName[1]]
                         ELSE [tag |-> "Uninitialized", name |-> <<>>]
    /\ h_tracking_issue_number' = None
    /\ h_steps' = Append(h_steps, "extract_feature_name_from_rfc_text")
    /\ h_pc' = "create_tracking_issue"
    /\ UNCHANGED <<h_panic, runVars, hdrVars, featVars, rt_result>>

\* create_tracking_issue: format_tracking_issue_body panics on
\* Uninitialized; otherwise the issue is created and its number kept, or
\* the error of the gateway is returned through the ? of handle_command
HandlerCreateTrackingIssue ==
    /\ h_pc = "create_tracking_issue"
    /\ IF h_feature_name.tag = "Uninitialized"
       THEN /\ h_pc' = "Panicked"
            /\ h_panic' = Some("should have called extract_feature_name_from_rfc_text already.")
            /\ UNCHANGED <<h_tracking_issue_number, h_steps>>
       ELSE \/ /\ h_pc' = "ReturnedErr"
               /\ UNCHANGED <<h_panic, h_tracking_issue_number, h_steps>>
            \/ /\ h_tracking_issue_number' = Some(777)
               /\ h_steps' = Append(h_steps, "create_tracking_issue")
               /\ h_pc' = "update_rfc_header_text"
               /\ UNCHANGED h_panic
    /\ UNCHANGED <<h_feature_name, runVars, hdrVars, featVars, rt_result>>

\* update_rfc_header_text: unimplemented!()
HandlerUpdateRfcHeaderText ==
    /\ h_pc = "update_rfc_header_text"
    /\ h_pc' = "Panicked"
    /\ h_panic' = Some("not implemented")
    /\ UNCHANGED <<h_feature_name, h_tracking_issue_number, h_steps,
                   runVars, hdrVars, featVars, rt_result>>

NextHandlerSteps ==
    ExtractFeatureNameFromRfcText \/ HandlerCreateTrackingIssue \/ HandlerUpdateRfcHeaderText

SpecHandlerSteps == InitFeature /\ [][NextHandlerSteps]_vars

----------------------------------------------------------------------------
(* Vocabulary of the claims *)

\* the elements of a sequence
Range(s) == {s[i] : i \in 1..Len(s)}

\* the number of calls of the gateway operation op the run has made
CallCount(r, op) == Cardinality({i \in 1..Len(calls[r]) : calls[r][i].op = op})

\* merge has been called and has not returned
InFlightRun(r) == pc[r] \notin {"NotStarted", "Returned"}

\* merge has returned an error
FailedRun(r) == pc[r] = "Returned" /\ result[r] # None /\ ~result[r][1].ok

\* the tracking issues the run has created
IssuesBy(r) == {i \in issues : i.by = r}

\* the paths of a changed-file list that start with the configured prefix
Matching(file_list) == {file_list[i] : i \in {j \in 1..Len(file_list) : StartsWith(file_list[j], <<"text/">>)}}

\* the number of lines of a text: its line ends, and one more for a last
\* line that has none
LineCount(text) ==
    Cardinality({i \in 1..Len(text) : text[i] = "\n"})
    + (IF text # <<>> /\ text[Len(text)] # "\n" THEN 1 ELSE 0)

\* the literal prefix the specification requires of header line i
RequiredPrefix(i) ==
    CASE i = 1 -> <<"- Feature Name: ">>
      [] i = 2 -> <<"- Start Date: ">>
      [] i = 3 -> <<"- RFC PR: ">>
      [] i = 4 -> <<"- Rust Issue: ">>

\* the first four lines exist and each begins with its required prefix
WellFormedHeader(text) ==
    /\ LineCount(text) >= 4
    /\ \A i \in 1..4 : StartsWith(Lines(text)[i], RequiredPrefix(i))

----------------------------------------------------------------------------
(* C1: a merge run invokes create_issue at most once, whatever the gateway  *)
(* answers, and so creates at most one tracking issue.                      *)

C1_CreateIssueAtMostOnce ==
    \A r \in Runs : CallCount(r, "issues.create") <= 1 /\ Cardinality(IssuesBy(r)) <= 1

\* a run whose create_issue call was answered with an error has returned
C1_Witness ==
    \E r \in Runs :
        /\ pc[r] = "Returned"
        /\ CallCount(r, "issues.create") = 1
        /\ calls[r][Len(calls[r])] = [op |-> "issues.create", args |-> <<>>, answer |-> "error"]

(* C2: two merge runs for the same PR number are never in flight together,  *)
(* so two interleaved runs never both create a tracking issue for the PR.   *)

C2_OneMergeInFlightPerPr ==
    \A r1, r2 \in Runs :
        (r1 # r2 /\ pr[r1] = pr[r2] /\ InFlightRun(r1) /\ InFlightRun(r2))
            => ~(IssuesBy(r1) # {} /\ IssuesBy(r2) # {})

(* C3: create_issue and post_review_comment are invoked only in a run whose *)
(* earlier steps all succeeded: the PR metadata came with a head            *)
(* repository, exactly one changed file matched the prefix, the raw file    *)
(* was found, and its four header lines were present and well prefixed.     *)

C3_CreateOnlyAfterEarlierSteps ==
    \A r \in Runs :
        (CallCount(r, "issues.create") + CallCount(r, "post_review_comment") > 0)
            => /\ calls[r][1] = [op |-> "pulls.get", args |-> <<>>, answer |-> "ok"]
               /\ branch_repo[r] # None
               /\ file_diff_list[r] # None
               /\ Cardinality(Matching(file_diff_list[r][1])) = 1
               /\ text_filename[r] # None
               /\ text_filename[r][1] \in Matching(file_diff_list[r][1])
               /\ raw[r] # None
               /\ raw[r][1] # None
               /\ WellFormedHeader(Utf8Lossy(raw[r][1][1]))

\* a run has invoked create_issue
C3_Witness == \E r \in Runs : CallCount(r, "issues.create") = 1 /\ pc[r] = "IssueCreated"

(* C4: a run whose step failed has returned the failure and makes no        *)
(* further gateway call; created issues and posted comments are never       *)
(* taken back.                                                              *)

C5_SuccessfulRunEndsDone ==
    \A r \in Runs :
        ( /\ pc[r] = "Returned"
          /\ Len(calls[r]) > 0
          /\ \A i \in 1..Len(calls[r]) : calls[r][i].answer = "ok"
          /\ CallCount(r, "post_review_comment") = 1
          /\ WellFormedHeader(Utf8Lossy(raw[r][1][1])) )
            => result[r][1].ok

\* the text of a gateway error is the collaborator's: it is taken to name
\* what the claim asks for, the texts merge writes itself are read as written
CarriesNumber(e, n) == e = Transport \/ n \in Range(e.nums)

(* C6: the failure a run returns identifies the stage that failed, carries  *)
(* the PR number and, once create_issue has succeeded in the run, carries   *)
(* the number of the tracking issue that was created.                       *)

C6_FailureCarriesContext ==
    \A r \in Runs :
        FailedRun(r)
            => /\ CarriesNumber(result[r][1].err, pr[r])
               /\ tracking_issue[r] # None
                     => CarriesNumber(result[r][1].err, tracking_issue[r][1])
               /\ \A o \in Runs :
                     (FailedRun(o) /\ result[o][1].err = result[r][1].err
                                   /\ result[r][1].err # Transport)
                         => failedAt[o] = failedAt[r]

(* C7: once the document has been looked for in a changed-file list, a      *)
(* list with exactly one matching path has given that path, and a list with *)
(* no or several matching paths has made the run fail with the error for a  *)
(* missing or ambiguous document, which names every candidate.              *)

C7_LocateDocument ==
    \A r \in Runs :
        (file_diff_list[r] # None /\ pc[r] # "ListingFiles")
            => LET candidates == Matching(file_diff_list[r][1])
               IN  IF Cardinality(candidates) = 1
                   THEN text_filename[r] # None /\ text_filename[r][1] \in candidates
                   ELSE /\ FailedRun(r)
                        /\ text_filename[r] = None
                        /\ result[r][1].err.fmt = "expected one rfc file, found {}: {:?}"
                        /\ candidates \subseteq Range(result[r][1].err.strs)

\* the i-th line of a text of at least i lines
LineOf(text, i) == Lines(text)[i]

\* the error extract_rfc_header gives for a missing line i
MissingLine(i) ==
    CASE i = 1 -> Anyhow("missing line 1", <<>>, <<>>)
      [] i = 2 -> Anyhow("missing line 2", <<>>, <<>>)
      [] i = 3 -> Anyhow("missing line 3", <<>>, <<>>)
      [] i = 4 -> Anyhow("missing line 4", <<>>, <<>>)

\* the error extract_rfc_header gives for a mis-prefixed line i
MalformedLine(i, actual) ==
    CASE i = 1 -> Anyhow("malformed feature line: {}", <<>>, <<actual>>)
      [] i = 2 -> Anyhow("malformed start date line: {}", <<>>, <<actual>>)
      [] i = 3 -> Anyhow("malformed rfc pr line: {}", <<>>, <<actual>>)
      [] i = 4 -> Anyhow("malformed rust issue line: {}", <<>>, <<actual>>)

\* the header lines among the first four that lack their required prefix
Violating(text) == {i \in 1..4 : ~StartsWith(LineOf(text, i), RequiredPrefix(i))}

\* the least number of a nonempty set of numbers
Least(S) == CHOOSE i \in S : \A j \in S : i <= j

(* C8: parsing a raw text of fewer than four lines fails with the error for *)
(* a truncated document, whatever the lines that are present hold, and      *)
(* gives no Header.                                                         *)

C8_TruncatedDocument ==
    (hdr_result # None /\ LineCount(Utf8Lossy(hdr_bytes)) < 4)
        => /\ ~hdr_result[1].ok
           /\ hdr_result[1].err = MissingLine(LineCount(Utf8Lossy(hdr_bytes)) + 1)

\* a text of three lines whose second line is mis-prefixed has been parsed
C8_Witness ==
    /\ hdr_result # None
    /\ hdr_bytes = JoinLines(<<LineFeature, LineSummary, LineRfcPr>>)
    /\ hdr_result[1] = Err(MissingLine(4))

(* C9: for a raw text of at least four lines of which some of the first     *)
(* four lack their prefix, parsing reports the malformed line of the lowest *)
(* index with that line's text, and the lines after the fourth do not       *)
(* change the result.                                                       *)

C9_FirstViolationReported ==
    (hdr_result # None /\ LineCount(Utf8Lossy(hdr_bytes)) >= 4)
        => LET text == Utf8Lossy(hdr_bytes)
           IN  /\ Violating(text) # {}
                     => /\ ~hdr_result[1].ok
                        /\ hdr_result[1].err =
                               MalformedLine(Least(Violating(text)), LineOf(text, Least(Violating(text))))
               /\ hdr_result[1] = ParseHeader(JoinLines(Take(Lines(text), 4)))

(* C10: parsing succeeds for every raw text whose first four lines begin    *)
(* with the four literal prefixes; a first line without backticks, such as  *)
(* the feature line with N/A, is accepted and gives no feature identifier.  *)

C10_PrefixedHeaderAccepted ==
    (hdr_result # None /\ WellFormedHeader(Utf8Lossy(hdr_bytes)))
        => /\ hdr_result[1].ok
           /\ LineOf(Utf8Lossy(hdr_bytes), 1) \in {LineFeatureNA, LineFeatureEmpty}
                 => FeatureName(hdr_result[1].val) = Ok(None)

----------------------------------------------------------------------------
(* C11 *)

\* s without the whitespace around it
Strip(s) ==
    LET inked == {i \in 1..Len(s) : s[i] # " "}
    IN  IF inked = {} THEN <<>>
        ELSE SubSeq(s, CHOOSE i \in inked : \A j \in inked : i <= j,
                       CHOOSE i \in inked : \A j \in inked : j <= i)

\* s without one layer of backtick quoting
Unquote(s) ==
    LET a == IF s # <<>> /\ s[1] = Backtick THEN 2 ELSE 1
        b == IF Len(s) >= a /\ s[Len(s)] = Backtick THEN Len(s) - 1 ELSE Len(s)
    IN  SubSeq(s, a, b)

\* what remains of a feature line once the prefix, the surrounding
\* whitespace and one layer of backtick quoting are taken away
RemainingContent(line) == Strip(Unquote(Strip(SubSeq(line, 2, Len(line)))))

\* C11: for every Header whose feature line starts with "- Feature Name: ",
\* feature_name returns None exactly when what remains of the line (prefix,
\* surrounding whitespace and one layer of backticks taken away) is empty or
\* the token N/A, and otherwise Some of what remains; the call leaves the
\* Header as it was.
C11_FeatureIdentifier ==
    [][fi_result' # fi_result =>
         /\ fi_header' = fi_header
         /\ LET c == RemainingContent(fi_header[1].feature_name)
            IN  fi_result'[1] = IF c = <<>> \/ c = <<"N/A">> THEN Ok(None) ELSE Ok(Some(c))]_vars

\* feature_name has answered None for a padded, quoted N/A
C11_Witness ==
    /\ fi_result = Some(Ok(None))
    /\ fi_header[1].feature_name = FeatureNamePrefix \o <<Backtick, " ", "N/A", Backtick>>

----------------------------------------------------------------------------
(* C12 *)

\* the feature identifier of a Header, as C11 states it
FeatureIdentifier(h) ==
    LET c == RemainingContent(h.feature_name)
    IN  IF c = <<>> \/ c = <<"N/A">> THEN None ELSE Some(c)

\* the source-PR line of a rewritten header
SourcePrLine(n) ==
    <<"- RFC PR: ", "[rust-lang/rfcs#", ToString(n),
      "](https://github.com/rust-lang/rfcs/pull/", ToString(n), ")">>

\* the target-issue line of a rewritten header
TargetIssueLine(t) ==
    <<"- Rust Issue: ", "[rust-lang/rust#", ToString(t),
      "](https://github.com/rust-lang/rust/issues/", ToString(t), ")">>

\* the replacement header lines for Header h, pull request n and issue t
ReplacementLines(h, n, t) ==
    LET f == FeatureIdentifier(h)
    IN  (IF f = None THEN <<>> ELSE << <<"- Feature Name: ", Backtick>> \o f[1] \o <<Backtick>> >>)
        \o <<h.start_date, SourcePrLine(n), TargetIssueLine(t)>>

\* C12: the body of every posted suggestion is a block opened by a
\* suggestion fence and closed by a closing fence, and between the fences
\* stand exactly the replacement header lines: the feature line iff the
\* feature identifier is Some, the start-date line as parsed, the source-PR
\* line linking the pull request and the target-issue line linking the
\* tracking issue; three lines without a feature and four with one.
C12_SuggestionBody ==
    \A c \in comments :
        LET ls == Lines(c.comment.body)
            h == header[c.by][1]
            inner == SubSeq(ls, 2, Len(ls) - 1)
        IN  /\ Len(ls) >= 2
            /\ ls[1] = <<Backtick, Backtick, Backtick, "suggestion">>
            /\ ls[Len(ls)] = <<Backtick, Backtick, Backtick>>
            /\ inner = ReplacementLines(h, pr[c.by], tracking_issue[c.by][1])
            /\ Len(inner) = IF FeatureIdentifier(h) = None THEN 3 ELSE 4

\* a suggestion of three lines and a suggestion of four lines have been posted
C12_Witness ==
    /\ \E c \in comments : Len(Lines(c.comment.body)) = 5
    /\ \E c \in comments : Len(Lines(c.comment.body)) = 6

----------------------------------------------------------------------------
(* C13 *)

\* the tokens that follow marker in body
EmbeddedAfter(body, marker) ==
    {body[i + 1] : i \in {j \in 1..(Len(body) - 1) : body[j] = marker}}

\* C13: post_review_comment is called only after issues.create was answered
\* Ok in the same run; the issue number in the posted body is the number
\* that call returned and the pull request number in it is the run's.
C13_PostAfterCreate ==
    /\ \A r \in Runs : \A i \in DOMAIN calls[r] :
          calls[r][i].op = "post_review_comment" =>
             \E j \in 1..(i - 1) : calls[r][j].op = "issues.create" /\ calls[r][j].answer = "ok"
    /\ \A c \in comments :
          /\ c.pull_number = pr[c.by]
          /\ \E is \in issues :
                /\ IssuesBy(c.by) = {is}
                /\ EmbeddedAfter(c.comment.body, "[rust-lang/rust#") = {ToString(is.number)}
                /\ EmbeddedAfter(c.comment.body, "](https://github.com/rust-lang/rust/issues/")
                      = {ToString(is.number)}
          /\ EmbeddedAfter(c.comment.body, "[rust-lang/rfcs#") = {ToString(pr[c.by])}
          /\ EmbeddedAfter(c.comment.body, "](https://github.com/rust-lang/rfcs/pull/")
                = {ToString(pr[c.by])}

\* both runs have posted, one for issue 777 and the other for issue 778
C13_Witness ==
    /\ \E c \in comments : "777" \in EmbeddedAfter(c.comment.body, "[rust-lang/rust#")
    /\ \E c \in comments : "778" \in EmbeddedAfter(c.comment.body, "[rust-lang/rust#")

----------------------------------------------------------------------------
(* C14 *)

\* the pull request was fetched for run r and has no head repository
HeadRepoAbsent(r) ==
    /\ calls[r] # <<>>
    /\ calls[r][1].op = "pulls.get" /\ calls[r][1].answer = "ok"
    /\ branch_repo[r] = None

\* C14: when the fetched pull request has no head repository, the run fails
\* at its first step with the no-remote-repo error naming the pull request,
\* and makes no gateway call after the fetch.
C14_NoRemoteBranch ==
    \A r \in Runs :
        HeadRepoAbsent(r) =>
            /\ pc[r] = "Returned"
            /\ failedAt[r] = Some("Init")
            /\ result[r] = Some(Err(Anyhow("no remote repo found for PR {}", <<pr[r]>>, <<>>)))
            /\ Len(calls[r]) = 1

\* a run has met a pull request without head repository while the other
\* run went on to create its issue
C14_Witness ==
    /\ HeadRepoAbsent("run1")
    /\ IssuesBy("run2") # {}

----------------------------------------------------------------------------
(* C15 *)

\* the full name of the repository the pull requests are opened against
BaseRepoName == "pnkfx/rfcs-play"

\* C15: the raw file is asked for at the head repository and head branch of
\* the pull request and the located path, not at the base repository; when
\* the answer is None the run fails with the not-found error, which is not
\* the error of a failed transport, and in neither case does the run hold a
\* Header or create an issue.
C15_DocumentNotFound ==
    \A r \in Runs : \A i \in DOMAIN calls[r] :
        calls[r][i].op = "raw_file" =>
            /\ calls[r][i].args = << <<HeadRepo.repo_full_name>>, <<HeadRepo.branch>>,
                                     text_filename[r][1]>>
            /\ calls[r][i].args[1] # <<BaseRepoName>>
            /\ calls[r][i].answer = "none" =>
                  /\ pc[r] = "Returned"
                  /\ result[r] = Some(Err(Anyhow("RFC for {}/{}/{} not found", <<>>,
                                       << <<HeadRepo.repo_full_name>>, <<HeadRepo.branch>>,
                                          text_filename[r][1]>>)))
                  /\ result[r] # Some(Err(Transport))
                  /\ header[r] = None
                  /\ IssuesBy(r) = {}
            /\ calls[r][i].answer = "error" =>
                  /\ pc[r] = "Returned"
                  /\ result[r] = Some(Err(Transport))
                  /\ header[r] = None
                  /\ IssuesBy(r) = {}

\* one run was answered None and the other a transport error for the raw file
C15_Witness ==
    /\ \E i \in DOMAIN calls["run1"] :
          calls["run1"][i].op = "raw_file" /\ calls["run1"][i].answer = "none"
    /\ \E i \in DOMAIN calls["run2"] :
          calls["run2"][i].op = "raw_file" /\ calls["run2"][i].answer = "error"

----------------------------------------------------------------------------
(* C16 *)

\* what the tracking issue of run r is composed from
ComposerInputs(r) == <<pr[r], rfc_title[r], FeatureIdentifier(header[r][1])>>

\* C16: the title of every created tracking issue is "Tracking Issue for RFC
\* <pr_number>: <rfc_title>"; the template is given FEATURE iff the feature
\* identifier is Some, and PR_NUM and TITLE always; two issues composed from
\* the same pull request number, title and feature identifier have the same
\* title and the same body.
C16_TrackingIssueComposed ==
    /\ \A i \in issues :
          LET f == FeatureIdentifier(header[i.by][1])
              context == i.body.context
          IN  /\ i.title = <<"Tracking Issue for RFC ", ToString(pr[i.by]), ": ", rfc_title[i.by][1]>>
              /\ i.body.template = "tracking_issue.tt"
              /\ ("FEATURE" \in DOMAIN context) <=> (f # None)
              /\ f # None => context.FEATURE = f[1]
              /\ {"PR_NUM", "TITLE"} \subseteq DOMAIN context
              /\ context.PR_NUM = ToString(pr[i.by])
              /\ context.TITLE = rfc_title[i.by][1]
    /\ \A i1, i2 \in issues :
          ComposerInputs(i1.by) = ComposerInputs(i2.by) =>
              i1.title = i2.title /\ i1.body = i2.body

\* two runs have composed an issue from the same inputs, without a feature name
C16_Witness ==
    /\ \E i1, i2 \in issues :
          /\ i1.by # i2.by
          /\ ComposerInputs(i1.by) = ComposerInputs(i2.by)
          /\ FeatureIdentifier(header[i1.by][1]) = None

----------------------------------------------------------------------------
(* C17 *)

\* the steps of handle_command, in the order of the claim
HandlerSteps ==
    <<"extract_feature_name_from_rfc_text", "create_tracking_issue", "update_rfc_header_text",
      "embed_issue_number_in_rfc_filename", "post_final_steps_for_caller_to_follow">>

\* s is a prefix of t
IsPrefix(s, t) == Len(s) <= Len(t) /\ SubSeq(t, 1, Len(s)) = s

\* C17: handle_command performs its five steps in order, each only after
\* the earlier ones succeeded, and ends by returning: Ok once all five are
\* done, so that the tracking issue is open, the header updated and the
\* file renamed, or the error of the step that failed.  It does not end in
\* a panic with the steps undone.
C17_HandlerPerformsSteps ==
    /\ IsPrefix(h_steps, HandlerSteps)
    /\ h_pc = "ReturnedOk" => h_steps = HandlerSteps
    /\ h_pc # "NotStarted" => h_panic = None

----------------------------------------------------------------------------
(* C18 *)

\* run r has fetched a changed-file list in which no document was located
LocationFailed(r) ==
    /\ file_diff_list[r] # None
    /\ Cardinality(Matching(file_diff_list[r][1])) # 1

\* C18: locating the document takes one fetch of the changed-file list,
\* whether it succeeds or fails: a run calls get_file_list at most once, and
\* a failed location ends the run with the missing-or-ambiguous error made
\* from the one fetched list, never with a transport error or with the
\* names of another fetch.
C18_FileListFetchedOnce ==
    \A r \in Runs :
        /\ CallCount(r, "get_file_list") <= 1
        /\ LocationFailed(r) /\ pc[r] = "Returned" =>
              /\ result[r][1].err # Transport
              /\ result[r][1].err.fmt = "expected one rfc file, found {}: {:?}"
              /\ Range(result[r][1].err.strs) \subseteq Range(file_diff_list[r][1])

----------------------------------------------------------------------------
(* C19 *)

\* the gateway operation an awaited call of the code is
GatewayOp(op) ==
    CASE op = "pulls.get" -> "get_pull_request"
      [] op = "get_title" -> "get_pull_request"
      [] op = "get_file_list" -> "list_changed_files"
      [] op = "raw_file" -> "get_raw_file"
      [] op = "issues.create" -> "create_issue"
      [] op = "post_review_comment" -> "post_review_comment"

\* the gateway operations run r has called, in order
GatewayCalls(r) == [i \in DOMAIN calls[r] |-> GatewayOp(calls[r][i].op)]

\* the calls of a run in which nothing fails
ExpectedCalls ==
    <<"get_pull_request", "list_changed_files", "get_raw_file", "create_issue",
      "post_review_comment">>

\* C19: the gateway calls of a run are a prefix of get_pull_request,
\* list_changed_files, get_raw_file, create_issue, post_review_comment, each
\* once and in this order, and the whole of it once the header suggestion
\* has been posted.
C19_GatewayCallOrder ==
    \A r \in Runs :
        /\ IsPrefix(GatewayCalls(r), ExpectedCalls)
        /\ pc[r] = "HeaderRewritten" => GatewayCalls(r) = ExpectedCalls

----------------------------------------------------------------------------
(* C20 *)

\* the commit at the head of the branch of pull request n, which is the
\* commit the header text of that pull request is fetched from
HeadCommitOf(n) == "head commit of #" \o ToString(n)

\* C20: every posted review comment is addressed to the path located in
\* its run, to lines 1 to 4 on the right side, and to the commit the header
\* text was fetched from for its pull request, so that comments on
\* different pull requests name different commits.
C20_CommentAddress ==
    /\ \A c \in comments :
          /\ c.comment.path = text_filename[c.by][1]
          /\ c.comment.first = [line |-> 1, side |-> "RIGHT"]
          /\ c.comment.last = [line |-> 4, side |-> "RIGHT"]
          /\ c.comment.commit_id = HeadCommitOf(c.pull_number)
    /\ \A c1, c2 \in comments :
          c1.pull_number # c2.pull_number => c1.comment.commit_id # c2.comment.commit_id

----------------------------------------------------------------------------
(* C21 *)

\* C21: for every accepted four-line header, the lines rebuilt from the
\* parsed Header (the feature line only when the identifier is Some, the
\* other lines as stored) are accepted again, and parsing them gives the
\* same feature identifier and the same start-date, source-PR and
\* target-issue lines.
C21_RoundTrip ==
    rt_result # None =>
        /\ rt_result[1].ok
        /\ LET h1 == hdr_result[1].val
               h2 == rt_result[1].val
           IN  /\ FeatureIdentifier(h2) = FeatureIdentifier(h1)
               /\ h2.start_date = h1.start_date
               /\ h2.rfc_pr = h1.rfc_pr
               /\ h2.rust_issue = h1.rust_issue

\* C21 as the code has it: when the feature identifier is Some, the rebuilt
\* lines are accepted and give the same identifier and the same other
\* lines; when it is None, the rebuilt header has no feature line and the
\* parser rejects it.
C21_RoundTripWithFeature ==
    rt_result # None =>
        LET h1 == hdr_result[1].val
        IN  IF FeatureIdentifier(h1) = None
            THEN ~rt_result[1].ok
            ELSE /\ rt_result[1].ok
                 /\ FeatureIdentifier(rt_result[1].val) = FeatureIdentifier(h1)
                 /\ rt_result[1].val.start_date = h1.start_date
                 /\ rt_result[1].val.rfc_pr = h1.rfc_pr
                 /\ rt_result[1].val.rust_issue = h1.rust_issue

\* a padded, half-quoted feature line has come back as the quoted name
C21_Witness ==
    /\ rt_result # None
    /\ hdr_result[1].val.feature_name = FeatureNamePrefix \o <<Backtick, " ", "foo">>
    /\ rt_result[1].ok
    /\ rt_result[1].val.feature_name = FeatureNamePrefix \o <<Backtick, "foo", Backtick>>

----------------------------------------------------------------------------
(* C22 *)

----------------------------------------------------------------------------
(* C23 *)

\* the feature identifier the body of tracking issue i was composed with
IssueFeature(i) ==
    IF "FEATURE" \in DOMAIN i.body.context THEN Some(i.body.context.FEATURE) ELSE None

\* the feature identifier on the feature line of a suggestion body
BodyFeature(body) ==
    LET ls == Lines(body)
        at == {k \in 1..Len(ls) : StartsWith(ls[k], FeatureNamePrefix)}
    IN  IF at = {} THEN None
        ELSE LET line == ls[CHOOSE k \in at : TRUE] IN Some(SubSeq(line, 3, Len(line) - 1))

\* the errors a step after the extraction of the Header may end a run with
\* when the header is not at fault
NotOfTheHeader ==
    {Transport, TryFromErr, Anyhow("unfinished business", <<>>, <<>>),
     Anyhow("tera: failed to render", <<>>, << <<"tracking_issue.tt">> >>)}

\* C23: feature_name returns no error for a Header that extract_rfc_header
\* has returned; so the feature identifier in the body of a run's tracking
\* issue and the one in the body of its suggestion are the same value, and
\* a run that has its Header does not fail on the format of the header,
\* neither before nor after its issue is created.
C23_FeatureNameNeverErrs ==
    /\ hdr_result # None /\ hdr_result[1].ok => FeatureName(hdr_result[1].val).ok
    /\ \A r \in Runs :
          header[r] # None =>
              /\ FeatureName(header[r][1]).ok
              /\ FailedRun(r) => result[r][1].err \in NotOfTheHeader
    /\ \A c \in comments : \A i \in IssuesBy(c.by) :
          BodyFeature(c.comment.body) = IssueFeature(i)

\* a run has posted a suggestion with the feature name of its tracking
\* issue, and the other run one without, as its tracking issue has none
C23_Witness ==
    /\ \E c \in comments : \E i \in IssuesBy(c.by) :
          BodyFeature(c.comment.body) = Some(<<"foo">>) /\ IssueFeature(i) = Some(<<"foo">>)
    /\ \E c \in comments : \E i \in IssuesBy(c.by) :
          BodyFeature(c.comment.body) = None /\ IssueFeature(i) = None

====
